---- MODULE Spec2Model ----
(***************************************************************************)
(* Model of the Kibana inventory scripts.                                  *)
(*                                                                         *)
(*   kibana_inventory_gem.py : main -> get_all_spaces ->                   *)
(*                             list_kibana_objects_in_space (paged sweep)  *)
(*   kibana_inventory.py     : main -> generate_kibana_inventory           *)
(*                                     (get_kibana_objects_by_type,        *)
(*                                      get_data_views)                    *)
(*                             main -> search_object_by_id                 *)
(*                                                                         *)
(* Every HTTP request is one step: the step takes the response (or the     *)
(* RequestException) and runs the code up to the next request.  The remote *)
(* store does not change during a run.  The k-th object a (space, type)    *)
(* cell holds has id k, so a cell is described by the number of objects it *)
(* holds; the same id then recurs across types and spaces, as Kibana       *)
(* allows.  A cell's content is fixed by the first response that reports   *)
(* it (revealed) and every later response agrees with it.                  *)
(***************************************************************************)
EXTENDS Integers, Sequences, FiniteSets

VARIABLES
    mode,                          \* which program runs: "gem", "inventory", "search"
    pc,                            \* "spaces" (before get_all_spaces), "sweep", "done"
    enumerated,                    \* outcome of get_all_spaces: "pending", "failed", "ok"
    spaces,                        \* the list get_all_spaces returned (ids)
    store,                         \* remote store: objects held per space and cell
    revealed,                      \* the (space, cell) pairs a response has reported
    target_object_id,              \* --object_id of the search mode
    si,                            \* index of the space the for loop is at
    ti,                            \* index of the object type the for loop is at
    page,                          \* gem: the local variable page
    all_objects,                   \* the list the collector of the space is building
    all_kibana_objects_by_space,   \* gem main: the final per-space result
    inventory,                     \* generate_kibana_inventory: the snapshot
    matching_objects,              \* search_object_by_id: the result
    exit_status,                   \* completion status of the process (read at pc = "done")
    requests,                      \* history: per (space, cell) the requests issued
    run,                           \* which run against the store this is: 1 or 2
    first,                         \* what the first of two runs ended with
    raw,                           \* normalization: the response entry given
    record                         \* normalization: the record built from raw

vars == <<mode, pc, enumerated, spaces, store, revealed, target_object_id, si, ti,
          page, all_objects, all_kibana_objects_by_space, inventory,
          matching_objects, exit_status, requests, run, first, raw, record>>

\* What the steps of a single run leave alone.
aside == <<run, first, raw, record>>

(***************************************************************************)
(* Bounds and scaled program constants                                     *)
(***************************************************************************)
\* Largest number of objects a (space, cell) pair of the remote store holds.
MaxObjs == 3

\* gem: per_page = 1000, scaled so that a cell of MaxObjs objects needs two pages.
per_page == 2

\* kibana_inventory.py: 'per_page': 10000 of the single _find request, scaled alike.
per_page_find == 2

\* The spaces the remote store may have, in the order the spaces API lists them.
AllSpaces == <<"default", "marketing">>

\* The lists get_all_spaces may return on success: a prefix of AllSpaces.
SpaceLists == { SubSeq(AllSpaces, 1, k) : k \in 0..Len(AllSpaces) }

SpaceIds == { AllSpaces[i] : i \in 1..Len(AllSpaces) }

\* gem: object_types of list_kibana_objects_in_space (three of its 35 entries,
\* in the order of the list).
gem_object_types == <<"index-pattern", "dashboard", "lens">>

\* generate_kibana_inventory: object_types (two of its 7 entries).
object_types == <<"dashboard", "lens">>

\* Mutant of search_object_types: a type the inventory sweeps is missing from
\* the search's list.
search_object_types_NoLens == <<"dashboard">>

\* search_object_by_id: object_types (two of its 33 entries).
search_object_types == <<"dashboard", "lens">>

DataView == "data-view"

Cells == {"index-pattern", "dashboard", "lens", DataView}

(***************************************************************************)
(* Helpers                                                                 *)
(***************************************************************************)
Range(f) == { f[i] : i \in DOMAIN f }

\* dict[key] = value on a Python dict modelled as a function.
Put(d, key, value) ==
    [k \in (DOMAIN d) \cup {key} |-> IF k = key THEN value ELSE d[k]]

EmptyDict == [k \in {} |-> 0]

\* Mutant of FindPage: the page parameter is not sent, so every request is
\* answered with the first page.
FindPage_PageNotSent(n, pg, pp) ==
    IF n < pp THEN [i \in 1..n |-> i] ELSE [i \in 1..pp |-> i]

\* The remote _find endpoint: the ids of page pg (1-indexed) of a cell of n
\* objects at pp objects per page.
FindPage(n, pg, pp) ==
    LET lo == (pg - 1) * pp
        hi == IF n < pg * pp THEN n ELSE pg * pp
    IN  IF hi > lo THEN [i \in 1..(hi - lo) |-> lo + i] ELSE <<>>

\* The remote store answers for cell c of space s with n objects: n is what an
\* earlier response reported, or is fixed now.
Reveal(s, c, n) ==
    IF <<s, c>> \in revealed
    THEN /\ n = store[s][c]
         /\ UNCHANGED <<store, revealed>>
    ELSE /\ store' = [store EXCEPT ![s][c] = n]
         /\ revealed' = revealed \cup {<<s, c>>}

Log(s, c, pg, ok) ==
    requests' = [requests EXCEPT ![s][c] = Append(@, [page |-> pg, ok |-> ok])]

(***************************************************************************)
(* Initial states                                                          *)
(***************************************************************************)
InitCommon ==
    /\ pc = "spaces"
    /\ enumerated = "pending"
    /\ spaces = <<>>
    /\ store = [s \in SpaceIds |-> [c \in Cells |-> 0]]
    /\ revealed = {}
    /\ si = 1
    /\ ti = 1
    /\ page = 1
    /\ all_objects = <<>>
    /\ all_kibana_objects_by_space = EmptyDict
    /\ inventory = EmptyDict
    /\ matching_objects = <<>>
    /\ exit_status = 0
    /\ requests = [s \in SpaceIds |-> [c \in Cells |-> <<>>]]
    /\ run = 1
    /\ first = EmptyDict
    /\ raw = EmptyDict
    /\ record = EmptyDict

InitGem ==
    /\ mode = "gem"
    /\ target_object_id = 0
    /\ InitCommon

(***************************************************************************)
(* kibana_inventory_gem.py                                                 *)
(***************************************************************************)
\* gem line 135: the page just read was the last one of the type.
LastPage(total, pg) == total <= pg * per_page

\* Mutant of NextPage: the page counter is not advanced.
NextPage_NotAdvanced(pg) == pg

\* gem line 137: page += 1.
NextPage(pg) == pg + 1

\* gem lines 170-174: main stores a space's list only when it is not empty.
GemStore(by_space, space_id, objects_in_space) ==
    IF objects_in_space # <<>>
    THEN Put(by_space, space_id, objects_in_space)
    ELSE by_space

\* gem line 133: the entries a page adds to all_objects.
GemEntries(objects, obj_type) ==
    [i \in 1..Len(objects) |-> [id |-> objects[i], type |-> obj_type]]

\* main of gem, lines 154-158 and the entry into the first space's sweep.
GemEnumerated(list, outcome) ==
    /\ mode = "gem"
    /\ pc = "spaces"
    /\ enumerated' = outcome
    /\ spaces' = list
    /\ IF list = <<>>
       THEN pc' = "done"          \* "No spaces found ... Exiting."; return
       ELSE pc' = "sweep"
    /\ exit_status' = 0           \* main returns None: the process exits with 0
    /\ UNCHANGED <<aside, mode, store, revealed, target_object_id, si, ti, page, all_objects,
                   all_kibana_objects_by_space, inventory, matching_objects, requests>>

\* get_all_spaces raises RequestException: returns [].
GemSpacesFail == GemEnumerated(<<>>, "failed")

\* get_all_spaces returns the list of the response.
GemSpacesOk == \E list \in SpaceLists : GemEnumerated(list, "ok")

\* The for loop of list_kibana_objects_in_space moves to the next object type
\* with all_objects = objs; after the last type the function returns and main
\* (lines 168-181) stores the list and moves to the next space.
GemNextType(objs) ==
    IF ti < Len(gem_object_types)
    THEN /\ ti' = ti + 1
         /\ all_objects' = objs
         /\ UNCHANGED <<si, page, all_kibana_objects_by_space, pc, exit_status>>
    ELSE /\ all_kibana_objects_by_space' =
                GemStore(all_kibana_objects_by_space, spaces[si], objs)
         /\ all_objects' = <<>>
         /\ ti' = 1
         /\ page' = 1             \* line 110, at the next call (unused once done)
         /\ IF si < Len(spaces)
            THEN /\ si' = si + 1
                 /\ UNCHANGED <<pc, exit_status>>
            ELSE /\ pc' = "done"
                 /\ exit_status' = 0
                 /\ UNCHANGED si

\* lines 129-137: the request for the current page succeeds.
GemFindOk ==
    /\ mode = "gem"
    /\ pc = "sweep"
    /\ \E n \in 0..MaxObjs :
         LET s == spaces[si]
             t == gem_object_types[ti]
             objs == all_objects \o GemEntries(FindPage(n, page, per_page), t)
         IN  /\ Reveal(s, t, n)
             /\ Log(s, t, page, TRUE)
             /\ IF LastPage(n, page)
                THEN GemNextType(objs)
                ELSE /\ page' = NextPage(page)
                     /\ all_objects' = objs
                     /\ UNCHANGED <<si, ti, all_kibana_objects_by_space, pc, exit_status>>
    /\ UNCHANGED <<aside, mode, enumerated, spaces, target_object_id, inventory, matching_objects>>

\* lines 138-140: the request raises RequestException: break.
GemFindFail ==
    /\ mode = "gem"
    /\ pc = "sweep"
    /\ Log(spaces[si], gem_object_types[ti], page, FALSE)
    /\ GemNextType(all_objects)
    /\ UNCHANGED <<aside, mode, enumerated, spaces, store, revealed, target_object_id,
                   inventory, matching_objects>>

NextGem == GemSpacesFail \/ GemSpacesOk \/ GemFindOk \/ GemFindFail

SpecGem == InitGem /\ [][NextGem]_vars

(***************************************************************************)
(* kibana_inventory.py: inventory mode                                     *)
(***************************************************************************)
InitInv ==
    /\ mode = "inventory"
    /\ target_object_id = 0
    /\ InitCommon

\* lines 160-169: the records get_kibana_objects_by_type appends for a response.
ObjectInfos(space_id, objects, obj_type) ==
    [i \in 1..Len(objects) |->
        [space_id |-> space_id, id |-> objects[i], type |-> obj_type]]

\* lines 203-212: the records get_data_views builds from the data_view list.
DataViewInfos(space_id, data_views) ==
    [i \in 1..Len(data_views) |->
        [space_id |-> space_id, id |-> data_views[i], type |-> DataView]]

\* lines 266-268: objects_by_type[obj["type"]].append(obj) over all_objects.
RECURSIVE GroupByType(_)
GroupByType(objs) ==
    IF objs = <<>>
    THEN EmptyDict
    ELSE LET n == Len(objs)
             obj == objs[n]
             rest == GroupByType(SubSeq(objs, 1, n - 1))
         IN  Put(rest, obj.type,
                 IF obj.type \in DOMAIN rest
                 THEN Append(rest[obj.type], obj)
                 ELSE <<obj>>)

\* Mutant of InventoryEntry: total_objects counts the saved objects only, as if
\* the data views were merged after the count was taken.
InventoryEntry_TotalBeforeDataViews(space_id, saved_objects, data_views) ==
    LET all == saved_objects \o data_views
        objects_by_type == GroupByType(all)
    IN  [space_id |-> space_id,
         total_objects |-> Len(saved_objects),
         objects_by_type |-> objects_by_type,
         type_counts |-> [t \in DOMAIN objects_by_type |-> Len(objects_by_type[t])]]

\* Mutant of InventoryEntry: the entry also records which run built it, as a
\* generation timestamp would.
InventoryEntry_RunStamped(space_id, saved_objects, data_views) ==
    LET all == saved_objects \o data_views
        objects_by_type == GroupByType(all)
    IN  [space_id |-> space_id,
         generated_in_run |-> run,
         total_objects |-> Len(all),
         objects_by_type |-> objects_by_type,
         type_counts |-> [t \in DOMAIN objects_by_type |-> Len(objects_by_type[t])]]

\* lines 263-276: the entry of one space.
InventoryEntry(space_id, saved_objects, data_views) ==
    LET all == saved_objects \o data_views
        objects_by_type == GroupByType(all)
    IN  [space_id |-> space_id,
         total_objects |-> Len(all),
         objects_by_type |-> objects_by_type,
         type_counts |-> [t \in DOMAIN objects_by_type |-> Len(objects_by_type[t])]]

\* Mutant of InventoryStore: a space without objects is left out, as gem's main
\* does with its own result.
InventoryStore_SkipEmpty(inv, space_id, entry) ==
    IF entry.total_objects = 0 THEN inv ELSE Put(inv, space_id, entry)

\* line 270: inventory[space_id] = {...}.
InventoryStore(inv, space_id, entry) == Put(inv, space_id, entry)

\* main, lines 606-632: the completion status for the inventory built.
InventoryStatus(inv) == IF inv = EmptyDict THEN 1 ELSE 0

\* generate_kibana_inventory lines 242-245 and main lines 606-610.
InvEnumerated(list, outcome) ==
    /\ mode = "inventory"
    /\ pc = "spaces"
    /\ enumerated' = outcome
    /\ spaces' = list
    /\ IF list = <<>>
       THEN /\ pc' = "done"       \* return {}; main: "Failed to generate inventory"
            /\ exit_status' = InventoryStatus(EmptyDict)
       ELSE /\ pc' = "sweep"
            /\ UNCHANGED exit_status
    /\ UNCHANGED <<aside, mode, store, revealed, target_object_id, si, ti, page, all_objects,
                   all_kibana_objects_by_space, inventory, matching_objects, requests>>

InvSpacesFail == InvEnumerated(<<>>, "failed")

InvSpacesOk == \E list \in SpaceLists : InvEnumerated(list, "ok")

\* get_kibana_objects_by_type lines 153-169: the request for the type succeeds.
InvFindOk ==
    /\ mode = "inventory"
    /\ pc = "sweep"
    /\ ti <= Len(object_types)
    /\ \E n \in 0..MaxObjs :
         LET s == spaces[si]
             t == object_types[ti]
         IN  /\ Reveal(s, t, n)
             /\ Log(s, t, 1, TRUE)
             /\ all_objects' =
                    all_objects \o ObjectInfos(s, FindPage(n, 1, per_page_find), t)
    /\ ti' = ti + 1
    /\ UNCHANGED <<aside, mode, pc, enumerated, spaces, target_object_id, si, page,
                   all_kibana_objects_by_space, inventory, matching_objects,
                   exit_status>>

\* lines 171-174: the request raises RequestException; the loop goes on.
InvFindFail ==
    /\ mode = "inventory"
    /\ pc = "sweep"
    /\ ti <= Len(object_types)
    /\ Log(spaces[si], object_types[ti], 1, FALSE)
    /\ ti' = ti + 1
    /\ UNCHANGED <<aside, mode, pc, enumerated, spaces, store, revealed, target_object_id, si,
                   page, all_objects, all_kibana_objects_by_space, inventory,
                   matching_objects, exit_status>>

\* generate_kibana_inventory lines 260-282 with the list get_data_views returned,
\* then main lines 608-632 after the last space.
InvSpaceDone(data_views) ==
    LET s == spaces[si]
        inv == InventoryStore(inventory, s, InventoryEntry(s, all_objects, data_views))
    IN  /\ inventory' = inv
        /\ all_objects' = <<>>
        /\ ti' = 1
        /\ IF si < Len(spaces)
           THEN /\ si' = si + 1
                /\ UNCHANGED <<pc, exit_status>>
           ELSE /\ pc' = "done"
                /\ exit_status' = InventoryStatus(inv)
                /\ UNCHANGED si

\* get_data_views lines 196-214: the data views request succeeds.
InvDataViewsOk ==
    /\ mode = "inventory"
    /\ pc = "sweep"
    /\ ti = Len(object_types) + 1
    /\ \E n \in 0..MaxObjs :
         LET s == spaces[si]
         IN  /\ Reveal(s, DataView, n)
             /\ Log(s, DataView, 1, TRUE)
             /\ InvSpaceDone(DataViewInfos(s, [i \in 1..n |-> i]))
    /\ UNCHANGED <<aside, mode, enumerated, spaces, target_object_id, page,
                   all_kibana_objects_by_space, matching_objects>>

\* get_data_views lines 216-220: the request raises; returns [].
InvDataViewsFail ==
    /\ mode = "inventory"
    /\ pc = "sweep"
    /\ ti = Len(object_types) + 1
    /\ Log(spaces[si], DataView, 1, FALSE)
    /\ InvSpaceDone(<<>>)
    /\ UNCHANGED <<aside, mode, enumerated, spaces, store, revealed, target_object_id, page,
                   all_kibana_objects_by_space, matching_objects>>

NextInv ==
    \/ InvSpacesFail
    \/ InvSpacesOk
    \/ InvFindOk
    \/ InvFindFail
    \/ InvDataViewsOk
    \/ InvDataViewsFail

SpecInv == InitInv /\ [][NextInv]_vars

(***************************************************************************)
(* kibana_inventory.py: search mode (--object_id)                          *)
(***************************************************************************)
\* The ids --object_id is drawn from: every id a cell can hold.
TargetIds == 1..MaxObjs

InitSearch ==
    /\ mode = "search"
    /\ target_object_id \in TargetIds
    /\ InitCommon

\* Mutant of IsMatch: every entry of the response is taken for a match.
IsMatch_NoComparison(id, target) == TRUE

\* lines 461 and 489: obj["id"] == target_object_id.
IsMatch(id, target) == id = target

\* lines 460-473 and 488-501: the records appended for the entries of one
\* response, in the order of the response.
RECURSIVE Matches(_, _, _, _)
Matches(space_id, objects, obj_type, target) ==
    IF objects = <<>>
    THEN <<>>
    ELSE LET n == Len(objects)
             rest == Matches(space_id, SubSeq(objects, 1, n - 1), obj_type, target)
         IN  IF IsMatch(objects[n], target)
             THEN Append(rest, [space_id |-> space_id, id |-> objects[n],
                                type |-> obj_type])
             ELSE rest

\* main lines 581-602: the status of a search run, whatever was found.
SearchStatus(found) == 0

\* search_object_by_id lines 413-416 and main lines 581-602.
SearchEnumerated(list, outcome) ==
    /\ mode = "search"
    /\ pc = "spaces"
    /\ enumerated' = outcome
    /\ spaces' = list
    /\ IF list = <<>>
       THEN /\ pc' = "done"       \* return []; display_search_results; return 0
            /\ exit_status' = SearchStatus(<<>>)
       ELSE /\ pc' = "sweep"
            /\ UNCHANGED exit_status
    /\ UNCHANGED <<aside, mode, store, revealed, target_object_id, si, ti, page, all_objects,
                   all_kibana_objects_by_space, inventory, matching_objects, requests>>

SearchSpacesFail == SearchEnumerated(<<>>, "failed")

SearchSpacesOk == \E list \in SpaceLists : SearchEnumerated(list, "ok")

\* lines 446-474: the request for the type succeeds.
SearchFindOk ==
    /\ mode = "search"
    /\ pc = "sweep"
    /\ ti <= Len(search_object_types)
    /\ \E n \in 0..MaxObjs :
         LET s == spaces[si]
             t == search_object_types[ti]
         IN  /\ Reveal(s, t, n)
             /\ Log(s, t, 1, TRUE)
             /\ matching_objects' =
                    matching_objects
                    \o Matches(s, FindPage(n, 1, per_page_find), t, target_object_id)
    /\ ti' = ti + 1
    /\ UNCHANGED <<aside, mode, pc, enumerated, spaces, target_object_id, si, page, all_objects,
                   all_kibana_objects_by_space, inventory, exit_status>>

\* lines 476-477: the request raises RequestException; the loop goes on.
SearchFindFail ==
    /\ mode = "search"
    /\ pc = "sweep"
    /\ ti <= Len(search_object_types)
    /\ Log(spaces[si], search_object_types[ti], 1, FALSE)
    /\ ti' = ti + 1
    /\ UNCHANGED <<aside, mode, pc, enumerated, spaces, store, revealed, target_object_id, si,
                   page, all_objects, all_kibana_objects_by_space, inventory,
                   matching_objects, exit_status>>

\* The data views probe of the space is over with result found: the for loop
\* moves to the next space; after the last one search_object_by_id returns and
\* main (lines 582-602) displays the result and returns.
SearchSpaceDone(found) ==
    /\ matching_objects' = found
    /\ ti' = 1
    /\ IF si < Len(spaces)
       THEN /\ si' = si + 1
            /\ UNCHANGED <<pc, exit_status>>
       ELSE /\ pc' = "done"
            /\ exit_status' = SearchStatus(found)
            /\ UNCHANGED si

\* lines 480-502: the data views request succeeds.
SearchDataViewsOk ==
    /\ mode = "search"
    /\ pc = "sweep"
    /\ ti = Len(search_object_types) + 1
    /\ \E n \in 0..MaxObjs :
         LET s == spaces[si]
         IN  /\ Reveal(s, DataView, n)
             /\ Log(s, DataView, 1, TRUE)
             /\ SearchSpaceDone(
                    matching_objects
                    \o Matches(s, [i \in 1..n |-> i], DataView, target_object_id))
    /\ UNCHANGED <<aside, mode, enumerated, spaces, target_object_id, page, all_objects,
                   all_kibana_objects_by_space, inventory>>

\* lines 504-505: the data views request raises; the loop goes on.
SearchDataViewsFail ==
    /\ mode = "search"
    /\ pc = "sweep"
    /\ ti = Len(search_object_types) + 1
    /\ Log(spaces[si], DataView, 1, FALSE)
    /\ SearchSpaceDone(matching_objects)
    /\ UNCHANGED <<aside, mode, enumerated, spaces, store, revealed, target_object_id, page,
                   all_objects, all_kibana_objects_by_space, inventory>>

NextSearch ==
    \/ SearchSpacesFail
    \/ SearchSpacesOk
    \/ SearchFindOk
    \/ SearchFindFail
    \/ SearchDataViewsOk
    \/ SearchDataViewsFail

SpecSearch == InitSearch /\ [][NextSearch]_vars

(***************************************************************************)
(* Properties                                                              *)
(***************************************************************************)
\* Some request for cell c of space s raised RequestException.
Failed(s, c) == \E i \in 1..Len(requests[s][c]) : ~requests[s][c][i].ok

AnyFailure == \E s \in SpaceIds : \E c \in Cells : Failed(s, c)

\* The ids of the entries of type t in a list of entries.
IdsOfType(entries, t) ==
    { entries[i].id : i \in { k \in 1..Len(entries) : entries[k].type = t } }

CountOfType(entries, t) ==
    Cardinality({ k \in 1..Len(entries) : entries[k].type = t })

\* The list list_kibana_objects_in_space returned for space s, read back from
\* the result of gem's main (a space left out of it returned the empty list).
GemCollected(s) ==
    IF s \in DOMAIN all_kibana_objects_by_space
    THEN all_kibana_objects_by_space[s]
    ELSE <<>>

\* The entries of type t collected for space s are exactly the stored objects.
GemComplete(s, t) ==
    /\ IdsOfType(GemCollected(s), t) = 1..store[s][t]
    /\ CountOfType(GemCollected(s), t) = store[s][t]

GemTypes == Range(gem_object_types)

Ceil(a, b) == (a + b - 1) \div b

\* C1 (as claimed): once gem's run is over, for every space and every swept
\* type none of whose requests failed, the entries collected for the pair are
\* exactly the objects of that type the remote store holds in that space.
C1_CollectedExactlyStored ==
    pc = "done" =>
        \A s \in Range(spaces) : \A t \in GemTypes :
            ~Failed(s, t) => GemComplete(s, t)

\* The only failed request of the run is the one for page 2 of type t in space s.
OnlyFailureIsPageTwo(s, t) ==
    /\ <<s, t>> \in revealed
    /\ \E i \in 1..Len(requests[s][t]) :
          /\ ~requests[s][t][i].ok
          /\ requests[s][t][i].page = 2
    /\ \A s2 \in SpaceIds : \A c \in Cells : Failed(s2, c) => (s2 = s /\ c = t)

\* C3 (as claimed): if the only failure of gem's run is on page 2 of type T in
\* space S, every other (space, type) pair is collected completely and the
\* entries of (S, T) are exactly those of its page 1.
C3_FailureOnPageTwoIsIsolated ==
    pc = "done" =>
        \A s \in Range(spaces) : \A t \in GemTypes :
            OnlyFailureIsPageTwo(s, t) =>
                /\ \A s2 \in Range(spaces) : \A t2 \in GemTypes :
                      (s2 # s \/ t2 # t) => GemComplete(s2, t2)
                /\ IdsOfType(GemCollected(s), t)
                       = Range(FindPage(store[s][t], 1, per_page))

\* C4 (as claimed, for a pair that holds at least one object; an empty pair
\* costs the one request that reports its total): once gem's run is over, a
\* pair none of whose requests failed was asked for exactly
\* ceil(total / per_page) pages.
C4_ExactlyCeilPageRequests ==
    pc = "done" =>
        \A s \in Range(spaces) : \A t \in GemTypes :
            (~Failed(s, t) /\ store[s][t] >= 1) =>
                Len(requests[s][t]) = Ceil(store[s][t], per_page)

\* C5 (as claimed): a run whose space enumeration failed or returned the empty
\* list ends with a non-zero completion status.
C5_NoSpacesIsFatal ==
    (pc = "done" /\ (enumerated = "failed" \/ spaces = <<>>)) => exit_status # 0

\* C6 (as claimed): every space the enumerator returned is a key of the final
\* per-space result of gem's main.
C6_EverySpaceIsAKey ==
    pc = "done" => \A s \in Range(spaces) : s \in DOMAIN all_kibana_objects_by_space

SearchCells == Range(search_object_types) \cup {DataView}

\* The records of the search result for space s and type c with the target id.
RecordsFor(s, c) ==
    { k \in 1..Len(matching_objects) :
        /\ matching_objects[k].space_id = s
        /\ matching_objects[k].type = c
        /\ matching_objects[k].id = target_object_id }

\* C7 (as claimed, for the pairs none of whose requests failed): once the
\* search is over, every stored object whose id is the target id has one
\* record in the result, for every space and every swept type.
C7_EveryStoredMatchIsRecorded ==
    pc = "done" =>
        \A s \in Range(spaces) : \A c \in SearchCells :
            (~Failed(s, c) /\ store[s][c] >= target_object_id) =>
                Cardinality(RecordsFor(s, c)) = 1

\* C8 (as claimed): a search result of more than one entry carries at least
\* two distinct space ids.
C8_SeveralEntriesSeveralSpaces ==
    (pc = "done" /\ Len(matching_objects) > 1) =>
        Cardinality({ matching_objects[k].space_id : k \in 1..Len(matching_objects) }) >= 2

RECURSIVE SumCounts(_)
SumCounts(counts) ==
    IF DOMAIN counts = {}
    THEN 0
    ELSE LET t == CHOOSE x \in DOMAIN counts : TRUE
         IN  counts[t] + SumCounts([u \in (DOMAIN counts) \ {t} |-> counts[u]])

InvCells == Range(object_types) \cup {DataView}

\* C2: every per-space entry of the inventory has total_objects equal to the sum
\* of its type_counts, and type_counts[t] equal to the length of
\* objects_by_type[t] for every type t present, whatever the responses and
\* failures were.
C2_CountsReconcile ==
    \A s \in DOMAIN inventory :
        LET e == inventory[s]
        IN  /\ DOMAIN e.type_counts = DOMAIN e.objects_by_type
            /\ e.total_objects = SumCounts(e.type_counts)
            /\ \A t \in DOMAIN e.type_counts :
                  e.type_counts[t] = Len(e.objects_by_type[t])

\* An entry with saved objects and data views, built although a request of the
\* space failed.
C2_Witness ==
    \E s \in DOMAIN inventory :
        /\ inventory[s].total_objects >= 3
        /\ DataView \in DOMAIN inventory[s].type_counts
        /\ Cardinality(DOMAIN inventory[s].type_counts) >= 2
        /\ \E c \in InvCells : Failed(s, c)

\* No cell of the remote store holds an object with the target id.
TargetAbsent ==
    \A s \in SpaceIds : \A c \in Cells : store[s][c] < target_object_id

\* C9: when the target id is absent from every space, the search returns the
\* empty list and the run ends with status 0, whatever objects with other ids
\* the spaces hold.
C9_AbsentTargetFindsNothing ==
    (pc = "done" /\ TargetAbsent) => (matching_objects = <<>> /\ exit_status = 0)

\* A search over two spaces that both hold objects with other ids, every
\* request answered, ends empty-handed and with status 0.
C9_Witness ==
    /\ mode = "search"
    /\ pc = "done"
    /\ TargetAbsent
    /\ Len(spaces) = 2
    /\ ~AnyFailure
    /\ \A s \in Range(spaces) : \E c \in SearchCells : store[s][c] >= 1
    /\ matching_objects = <<>>
    /\ exit_status = 0

\* C10: when space enumeration succeeds with at least one space, the run ends
\* with status 0 whichever per-type and data-view requests failed, all of them
\* included.
C10_PartialFailuresKeepSuccess ==
    (pc = "done" /\ enumerated = "ok" /\ spaces # <<>>) => exit_status = 0

\* An inventory run over two spaces in which every request after the
\* enumeration failed, ended with status 0.
C10_Witness ==
    /\ mode = "inventory"
    /\ pc = "done"
    /\ Len(spaces) = 2
    /\ \A s \in Range(spaces) : \A c \in InvCells :
          /\ Len(requests[s][c]) = 1
          /\ Failed(s, c)
    /\ exit_status = 0

(***************************************************************************)
(* Both collectors: gem's sweep and the inventory                          *)
(***************************************************************************)
InitCollect == InitGem \/ InitInv

NextCollect == NextGem \/ NextInv

SpecCollect == InitCollect /\ [][NextCollect]_vars

\* The places of the records of a run's result set, and the
\* (space_id, object_type, object_id) triple of the record at a place.
InventoryPlaces ==
    UNION { UNION { { <<s, t, i>> : i \in 1..Len(inventory[s].objects_by_type[t]) } :
                    t \in DOMAIN inventory[s].objects_by_type } :
            s \in DOMAIN inventory }

InventoryTriple(p) ==
    LET r == inventory[p[1]].objects_by_type[p[2]][p[3]]
    IN  <<r.space_id, r.type, r.id>>

GemPlaces ==
    UNION { { <<s, i>> : i \in 1..Len(all_kibana_objects_by_space[s]) } :
            s \in DOMAIN all_kibana_objects_by_space }

GemTriple(p) ==
    LET r == all_kibana_objects_by_space[p[1]][p[2]]
    IN  <<p[1], r.type, r.id>>

\* C11: no two records of a run's result set share the same
\* (space_id, object_type, object_id) triple, in the inventory snapshot and in
\* gem's per-space lists alike (the remote store holds each (type, id) once per
\* space; the same id recurs under other spaces and types).
C11_TriplesAreUnique ==
    /\ \A p \in InventoryPlaces : \A q \in InventoryPlaces :
          p # q => InventoryTriple(p) # InventoryTriple(q)
    /\ \A p \in GemPlaces : \A q \in GemPlaces :
          p # q => GemTriple(p) # GemTriple(q)

\* A finished inventory of two spaces that both hold a dashboard with id 1,
\* each with records of several types.
C11_Witness ==
    /\ mode = "inventory"
    /\ pc = "done"
    /\ Len(spaces) = 2
    /\ \A s \in Range(spaces) :
          /\ inventory[s].total_objects >= 3
          /\ \E p \in InventoryPlaces : InventoryTriple(p) = <<s, "dashboard", 1>>

(***************************************************************************)
(* Normalization of one response entry (kibana_inventory.py)               *)
(***************************************************************************)
\* dict.get(key, default).
Get(d, key, default) == IF key \in DOMAIN d THEN d[key] ELSE default

\* The values the optional fields of an entry take when present.
Titles == {"Q3 Funnel", ""}

SampleDescription == "funnel by quarter"

SampleUpdatedAt == "2024-05-01T12:00:00.000Z"

SampleName == "logs-*"

\* The attributes objects of a saved object: title and description each
\* present or not.
AttributeDicts ==
    { [g \in keys |-> IF g = "title" THEN title ELSE SampleDescription] :
        <<keys, title>> \in (SUBSET {"title", "description"}) \X Titles }

\* The entries of data["saved_objects"]: id and type always, attributes and
\* updated_at present or not.
RawSavedObjects ==
    { [f \in {"id", "type"} \cup { "attributes" : a \in attrs } \cup upd |->
          CASE f = "id" -> id
            [] f = "type" -> t
            [] f = "attributes" -> CHOOSE a \in attrs : TRUE
            [] f = "updated_at" -> SampleUpdatedAt] :
        <<id, t, attrs, upd>> \in
            (1..MaxObjs) \X Range(object_types)
            \X ({{}} \cup { {a} : a \in AttributeDicts })
            \X (SUBSET {"updated_at"}) }

\* The entries of data["data_view"]: id always, title and name present or not.
RawDataViews ==
    { [f \in {"id"} \cup { "title" : x \in title } \cup name |->
          CASE f = "id" -> id
            [] f = "title" -> CHOOSE x \in title : TRUE
            [] f = "name" -> SampleName] :
        <<id, title, name>> \in
            (1..MaxObjs) \X ({{}} \cup { {x} : x \in Titles }) \X (SUBSET {"name"}) }

\* Mutant of ObjectInfo: a missing title defaults to the empty string, like a
\* missing description.
ObjectInfo_TitleDefaultsEmpty(space_id, obj) ==
    [space_id |-> space_id,
     id |-> obj["id"],
     type |-> obj["type"],
     title |-> Get(Get(obj, "attributes", EmptyDict), "title", ""),
     description |-> Get(Get(obj, "attributes", EmptyDict), "description", ""),
     updated_at |-> Get(obj, "updated_at", "N/A")]

\* get_kibana_objects_by_type lines 161-168: object_info.
ObjectInfo(space_id, obj) ==
    [space_id |-> space_id,
     id |-> obj["id"],
     type |-> obj["type"],
     title |-> Get(Get(obj, "attributes", EmptyDict), "title", "N/A"),
     description |-> Get(Get(obj, "attributes", EmptyDict), "description", ""),
     updated_at |-> Get(obj, "updated_at", "N/A")]

\* get_data_views lines 204-211: data_view_info.
DataViewInfo(space_id, dv) ==
    [space_id |-> space_id,
     id |-> dv["id"],
     type |-> "data-view",
     title |-> Get(dv, "title", "N/A"),
     description |-> Get(dv, "name", ""),
     updated_at |-> "N/A"]

\* One entry of a response of space spaces[1] is about to be normalized.
InitNorm ==
    /\ \/ mode = "normalize_saved_object" /\ raw \in RawSavedObjects
       \/ mode = "normalize_data_view" /\ raw \in RawDataViews
    /\ pc = "entry"
    /\ enumerated = "ok"
    /\ \E s \in SpaceIds : spaces = <<s>>
    /\ store = [s \in SpaceIds |-> [c \in Cells |-> 0]]
    /\ revealed = {}
    /\ target_object_id = 0
    /\ si = 1
    /\ ti = 1
    /\ page = 1
    /\ all_objects = <<>>
    /\ all_kibana_objects_by_space = EmptyDict
    /\ inventory = EmptyDict
    /\ matching_objects = <<>>
    /\ exit_status = 0
    /\ requests = [s \in SpaceIds |-> [c \in Cells |-> <<>>]]
    /\ run = 1
    /\ first = EmptyDict
    /\ record = EmptyDict

\* The loop body of get_kibana_objects_by_type on one entry.
NormalizeSavedObject ==
    /\ mode = "normalize_saved_object"
    /\ pc = "entry"
    /\ record' = ObjectInfo(spaces[si], raw)
    /\ pc' = "done"
    /\ UNCHANGED <<mode, enumerated, spaces, store, revealed, target_object_id, si, ti,
                   page, all_objects, all_kibana_objects_by_space, inventory,
                   matching_objects, exit_status, requests, run, first, raw>>

\* The loop body of get_data_views on one entry.
NormalizeDataView ==
    /\ mode = "normalize_data_view"
    /\ pc = "entry"
    /\ record' = DataViewInfo(spaces[si], raw)
    /\ pc' = "done"
    /\ UNCHANGED <<mode, enumerated, spaces, store, revealed, target_object_id, si, ti,
                   page, all_objects, all_kibana_objects_by_space, inventory,
                   matching_objects, exit_status, requests, run, first, raw>>

NextNorm == NormalizeSavedObject \/ NormalizeDataView

SpecNorm == InitNorm /\ [][NextNorm]_vars

HasAttribute(obj, key) ==
    /\ "attributes" \in DOMAIN obj
    /\ key \in DOMAIN obj["attributes"]

\* C12: normalization yields a record for every entry and fills a missing
\* optional field with its default: a saved object without attributes.title
\* gets title "N/A", without description "", without updated_at "N/A", and a
\* present field is copied; a data view gets type "data-view", description
\* equal to its name ("" without one), title "N/A" without one and updated_at
\* "N/A".
C12_NormalizationDefaults ==
    /\ pc = "entry" => ENABLED NextNorm
    /\ (pc = "done" /\ mode = "normalize_saved_object") =>
          /\ record.space_id = spaces[si]
          /\ record.id = raw["id"]
          /\ record.type = raw["type"]
          /\ record.title =
                IF HasAttribute(raw, "title") THEN raw["attributes"]["title"] ELSE "N/A"
          /\ record.description =
                IF HasAttribute(raw, "description")
                THEN raw["attributes"]["description"]
                ELSE ""
          /\ record.updated_at =
                IF "updated_at" \in DOMAIN raw THEN raw["updated_at"] ELSE "N/A"
    /\ (pc = "done" /\ mode = "normalize_data_view") =>
          /\ record.space_id = spaces[si]
          /\ record.id = raw["id"]
          /\ record.type = "data-view"
          /\ record.title = IF "title" \in DOMAIN raw THEN raw["title"] ELSE "N/A"
          /\ record.description = IF "name" \in DOMAIN raw THEN raw["name"] ELSE ""
          /\ record.updated_at = "N/A"

\* A saved object that has attributes but no title in them, and no updated_at,
\* was normalized to title "N/A".
C12_Witness ==
    /\ mode = "normalize_saved_object"
    /\ pc = "done"
    /\ "attributes" \in DOMAIN raw
    /\ "description" \in DOMAIN raw["attributes"]
    /\ "title" \notin DOMAIN raw["attributes"]
    /\ "updated_at" \notin DOMAIN raw
    /\ record.title = "N/A"
    /\ record.updated_at = "N/A"

(***************************************************************************)
(* Two runs of the inventory against the same, unchanged remote store      *)
(***************************************************************************)
\* No request of the run under way, nor of the run before it, has failed.
FailedIn(reqs, s, c) == \E i \in 1..Len(reqs[s][c]) : ~reqs[s][c][i].ok

NoFailureInFirst ==
    run = 2 =>
        /\ first.enumerated # "failed"
        /\ \A s \in SpaceIds : \A c \in Cells : ~FailedIn(first.requests, s, c)

NoFailureSoFar ==
    /\ enumerated # "failed"
    /\ ~AnyFailure
    /\ NoFailureInFirst

\* main is started again (a new process: every local starts afresh) while the
\* remote store stays as it is.
InvRunAgain ==
    /\ mode = "inventory"
    /\ pc = "done"
    /\ run = 1
    /\ run' = 2
    /\ first' = [inventory |-> inventory, requests |-> requests,
                 enumerated |-> enumerated, spaces |-> spaces,
                 exit_status |-> exit_status]
    /\ pc' = "spaces"
    /\ enumerated' = "pending"
    /\ spaces' = <<>>
    /\ si' = 1
    /\ ti' = 1
    /\ page' = 1
    /\ all_objects' = <<>>
    /\ inventory' = EmptyDict
    /\ exit_status' = 0
    /\ requests' = [s \in SpaceIds |-> [c \in Cells |-> <<>>]]
    /\ UNCHANGED <<mode, store, revealed, target_object_id,
                   all_kibana_objects_by_space, matching_objects, raw, record>>

\* get_all_spaces succeeds: the spaces of an unchanged store are those the
\* first run was given, if it was given any.
TwiceSpacesOk ==
    \E list \in SpaceLists :
        /\ (run = 2 /\ first.enumerated = "ok") => list = first.spaces
        /\ InvEnumerated(list, "ok")

\* The two-run behaviours take at most one failed request in all: one is what
\* makes two runs differ.
TwiceSpacesFail == NoFailureSoFar /\ InvSpacesFail

TwiceFindFail == NoFailureSoFar /\ InvFindFail

TwiceDataViewsFail == NoFailureSoFar /\ InvDataViewsFail

NextTwice ==
    \/ TwiceSpacesOk
    \/ TwiceSpacesFail
    \/ InvFindOk
    \/ TwiceFindFail
    \/ InvDataViewsOk
    \/ TwiceDataViewsFail
    \/ InvRunAgain

SpecTwice == InitInv /\ [][NextTwice]_vars

C14_EveryTypeStartsAtPageOne ==
    \A s \in SpaceIds : \A t \in GemTypes :
        \A i \in 1..Len(requests[s][t]) : requests[s][t][i].page = i

(***************************************************************************)
(* gem's sweep with responses that may lack the total field                *)
(***************************************************************************)
\* lines 129-137 on a response without 'total': data.get('total', 0) is 0.
GemFindOkNoTotal ==
    /\ mode = "gem"
    /\ pc = "sweep"
    /\ \E n \in 0..MaxObjs :
         LET s == spaces[si]
             t == gem_object_types[ti]
             objs == all_objects \o GemEntries(FindPage(n, page, per_page), t)
         IN  /\ Reveal(s, t, n)
             /\ Log(s, t, page, TRUE)
             /\ IF LastPage(0, page)
                THEN GemNextType(objs)
                ELSE /\ page' = NextPage(page)
                     /\ all_objects' = objs
                     /\ UNCHANGED <<si, ti, all_kibana_objects_by_space, pc, exit_status>>
    /\ UNCHANGED <<aside, mode, enumerated, spaces, target_object_id, inventory,
                   matching_objects>>

NextGemAnyTotal ==
    \/ GemSpacesFail
    \/ GemSpacesOk
    \/ GemFindOk
    \/ GemFindOkNoTotal
    \/ GemFindFail

\* Every request ends, with a response or with an exception, and the script
\* then takes its next step.
SpecGemLive ==
    InitGem /\ [][NextGemAnyTotal]_vars /\ WF_vars(NextGemAnyTotal)

\* The largest page the sweep of a store of at most MaxObjs objects per cell
\* can ask for.
LastPageOfAll == IF MaxObjs > per_page THEN Ceil(MaxObjs, per_page) ELSE 1

\* What is left of gem's run: the spaces and types still to sweep, and the
\* pages the counter can still advance by.
WorkLeft ==
    LET types == Len(gem_object_types)
        width == LastPageOfAll + 1
    IN  CASE pc = "done" -> 0
          [] pc = "spaces" -> Len(AllSpaces) * types * width + 1
          [] pc = "sweep" ->
                ((Len(spaces) - si) * types + (types - ti)) * width
                + (LastPageOfAll - page) + 1

\* C15: gem's sweep always ends: every step (a page read, with or without a
\* total field, or a failed request) leaves less work, the work left is never
\* negative, and the run reaches its end.
C15_SweepTerminates ==
    /\ [](WorkLeft >= 0)
    /\ [][WorkLeft' < WorkLeft]_vars
    /\ <>(pc = "done")

\* The sweep of a type needed a second page, a later request failed, another
\* response came without a total, and the run ended.
C15_Witness ==
    /\ mode = "gem"
    /\ pc = "done"
    /\ \E s \in Range(spaces) :
          /\ \E t \in GemTypes : Len(requests[s][t]) = 2
          /\ \E t \in GemTypes : Failed(s, t)
          /\ \E t \in GemTypes :
                /\ ~Failed(s, t)
                /\ Len(requests[s][t]) = 1
                /\ store[s][t] > requests[s][t][1].page * per_page

(***************************************************************************)
(* An inventory, then a search, against the same, unchanged remote store   *)
(***************************************************************************)
\* main is started again with --search-object-id (a new process: every local
\* starts afresh) while the remote store stays as it is.
SearchAfterInventory ==
    /\ mode = "inventory"
    /\ pc = "done"
    /\ run = 1
    /\ run' = 2
    /\ first' = [inventory |-> inventory, requests |-> requests,
                 enumerated |-> enumerated, spaces |-> spaces,
                 exit_status |-> exit_status]
    /\ mode' = "search"
    /\ target_object_id' \in TargetIds
    /\ pc' = "spaces"
    /\ enumerated' = "pending"
    /\ spaces' = <<>>
    /\ si' = 1
    /\ ti' = 1
    /\ page' = 1
    /\ all_objects' = <<>>
    /\ inventory' = EmptyDict
    /\ exit_status' = 0
    /\ requests' = [s \in SpaceIds |-> [c \in Cells |-> <<>>]]
    /\ UNCHANGED <<store, revealed, all_kibana_objects_by_space, matching_objects,
                   raw, record>>

\* get_all_spaces succeeds in the search: the spaces of an unchanged store are
\* those the inventory was given.
SearchSameSpacesOk ==
    /\ run = 2
    /\ SearchEnumerated(first.spaces, "ok")

\* The search takes at most one failed request; the inventory before it none.
SearchOnlySpacesFail == run = 2 /\ NoFailureSoFar /\ SearchSpacesFail

SearchOnlyFindFail == NoFailureSoFar /\ SearchFindFail

SearchOnlyDataViewsFail == NoFailureSoFar /\ SearchDataViewsFail

NextInvThenSearch ==
    \/ InvSpacesOk
    \/ InvFindOk
    \/ InvDataViewsOk
    \/ SearchAfterInventory
    \/ SearchSameSpacesOk
    \/ SearchOnlySpacesFail
    \/ SearchFindOk
    \/ SearchOnlyFindFail
    \/ SearchDataViewsOk
    \/ SearchOnlyDataViewsFail

SpecInvThenSearch == InitInv /\ [][NextInvThenSearch]_vars

\* The records of the snapshot snap, as (space, record) pairs.
SnapshotRecords(snap) ==
    UNION { UNION { { <<s, snap[s].objects_by_type[t][j]>> :
                        j \in 1..Len(snap[s].objects_by_type[t]) } :
                    t \in DOMAIN snap[s].objects_by_type } :
            s \in DOMAIN snap }

\* C16: when no request failed, every object of the inventory's snapshot whose
\* id is the one searched for is among the search's records, under the space
\* (and type) the snapshot has it in.
C16_SearchFindsWhatInventoryLists ==
    (run = 2 /\ mode = "search" /\ pc = "done" /\ NoFailureSoFar) =>
        \A p \in SnapshotRecords(first.inventory) :
            p[2].id = target_object_id =>
                \E k \in 1..Len(matching_objects) :
                    /\ matching_objects[k].space_id = p[1]
                    /\ matching_objects[k].id = p[2].id
                    /\ matching_objects[k].type = p[2].type

\* A failure-free search after an inventory of two spaces: the snapshot has the
\* id searched for in both spaces, as a lens object and as a data view, and the
\* search returned a record for each.
C16_Witness ==
    /\ run = 2
    /\ mode = "search"
    /\ pc = "done"
    /\ NoFailureSoFar
    /\ Len(spaces) = 2
    /\ \E p, q \in SnapshotRecords(first.inventory) :
          /\ p[1] # q[1]
          /\ p[2].id = target_object_id
          /\ q[2].id = target_object_id
          /\ p[2].type = "lens"
          /\ q[2].type = DataView
    /\ \A p \in SnapshotRecords(first.inventory) :
          p[2].id = target_object_id =>
              \E k \in 1..Len(matching_objects) :
                  /\ matching_objects[k].space_id = p[1]
                  /\ matching_objects[k].type = p[2].type

====
